---- MODULE Spec2Model ----
(***************************************************************************)
(* github-activity-generator: contribute.py (the CLI pipeline and the      *)
(* scheduler generate_commits) and gui.py (the desktop form that calls the *)
(* same functions).                                                        *)
(*                                                                         *)
(* Time is counted in minutes; minute 0 is Monday 2024-01-01 00:00, so day *)
(* number d has weekday d % 7 with 0 = Monday, as datetime.weekday().      *)
(* A datetime.date is the midnight of its day; args.kind records whether   *)
(* the two dates of the run are datetime.datetime objects (CLI, built by   *)
(* strptime / datetime.now) or datetime.date objects (GUI, toPyDate).      *)
(***************************************************************************)
EXTENDS Integers, Sequences, FiniteSets, TLC

VARIABLES entry, args, pc, err, dir_exists, origin, directory_exists,
          commit_data, row, commits, log

vars == <<entry, args, pc, err, dir_exists, origin, directory_exists,
          commit_data, row, commits, log>>

(***************************************************************************)
(* Program constants                                                       *)
(***************************************************************************)
MAX_COMMITS_PER_DAY == 20
MIN_COMMITS_PER_DAY == 1
DEFAULT_MAX_COMMITS == 10
\* timedelta(minutes=n) against the daily step of pd.date_range
MinutesPerDay == 1440
DaysPerWeek == 7
\* day.weekday() < 5: Monday..Friday
FirstWeekendDay == 5
\* QSpinBox ranges of the form
GuiMaxCommitsLow == 1
GuiMaxCommitsHigh == 20
GuiFrequencyLow == 0
GuiFrequencyHigh == 100

(***************************************************************************)
(* Bounds of the model                                                     *)
(***************************************************************************)
\* datetime.now().date() as a day number (6 is a Sunday)
Today == 6
\* longest date range of a pipeline run, in days
MaxRunDays == 2
\* longest date range handed to generate_commits directly, in days
MaxDays == 2

(***************************************************************************)
(* Helpers                                                                 *)
(***************************************************************************)
Min(a, b) == IF a <= b THEN a ELSE b
Max(a, b) == IF a >= b THEN a ELSE b

SetMin(S) == CHOOSE x \in S : \A y \in S : x <= y
SetMax(S) == CHOOSE x \in S : \A y \in S : x >= y

DayOf(t) == t \div MinutesPerDay
Midnight(d) == d * MinutesPerDay
Weekday(t) == DayOf(t) % DaysPerWeek
IsWeekend(t) == Weekday(t) >= FirstWeekendDay

\* datetime.now(): noon of today
Now == Midnight(Today) + MinutesPerDay \div 2

\* pd.date_range(start, end): one entry a day from start while <= end
DateRange(start, end) ==
    IF end < start THEN <<>>
    ELSE [n \in 1..((end - start) \div MinutesPerDay + 1) |->
              start + (n - 1) * MinutesPerDay]

\* min(max(max_commits, MIN_COMMITS_PER_DAY), MAX_COMMITS_PER_DAY)
ClampedMax(max_commits) ==
    Min(Max(max_commits, MIN_COMMITS_PER_DAY), MAX_COMMITS_PER_DAY)

(***************************************************************************)
(* The random source.  np.random.rand() is a real in [0, 1) and frequency  *)
(* is an integer divided by 100, so rand() < frequency / 100 is decided by *)
(* u = floor(100 * rand()) in 0..99: it holds exactly when u < frequency.  *)
(* np.random.randint(low, high) draws from low..high-1 and raises          *)
(* ValueError when low >= high.                                            *)
(***************************************************************************)
RandOutcomes == 0..99

FrequencyPassesLeq(u, frequency) == u <= frequency

FrequencyPasses(u, frequency) == u < frequency

RandintRaises(low, high) == low >= high
Randint(low, high) == low..(high - 1)

\* The outcomes of a draw that are followed: every one of them ("all"), or
\* only the lowest and the highest ("extreme")
Pick(mode, S) == IF mode = "all" THEN S ELSE {SetMin(S), SetMax(S)}

(***************************************************************************)
(* Argument surface                                                        *)
(***************************************************************************)
StartDays == (Today - 1)..(Today + 1)

\* QSpinBox.setRange(lo, hi): value() is always inside the range
SpinBoxValues(lo, hi, tried) == {Min(Max(v, lo), hi) : v \in tried}

TriedMaxCommits == {0, 1, 3, DEFAULT_MAX_COMMITS \div 2, MAX_COMMITS_PER_DAY, 50}
TriedFrequency == {-5, 0, GuiFrequencyHigh, 150}

\* argparse.Namespace of the CLI: type=int with no range check; --day_end
\* defaults to 'now'.  (A run without --day_start ends inside from_argparse,
\* strptime(None), and is not among the initial states.)
CliNamespaces ==
    [no_weekends : BOOLEAN, max_commits : TriedMaxCommits,
     frequency : TriedFrequency, repository : BOOLEAN,
     user_name : {FALSE}, user_email : {FALSE},
     day_start : StartDays, day_end : StartDays, end_now : BOOLEAN]

\* Args.from_argparse
FromArgparse(ns) ==
    [no_weekends |-> ns.no_weekends, max_commits |-> ns.max_commits,
     frequency |-> ns.frequency, repository |-> ns.repository,
     user_name |-> ns.user_name, user_email |-> ns.user_email,
     day_start |-> Midnight(ns.day_start),
     day_end |-> IF ns.end_now THEN Now ELSE Midnight(ns.day_end),
     kind |-> "datetime"]

CliArgs == {FromArgparse(ns) : ns \in CliNamespaces}

\* user_name / user_email as given (TRUE) or left empty (FALSE)
Identities == {<<TRUE, FALSE>>, <<FALSE, TRUE>>}

\* ContributeUI.generate_contributions: the Args built from the form fields
GuiArgs ==
    {[no_weekends |-> nw, max_commits |-> mc, frequency |-> fr,
      repository |-> rp, user_name |-> id[1], user_email |-> id[2],
      day_start |-> Midnight(ds), day_end |-> Midnight(de), kind |-> "date"] :
        nw \in BOOLEAN,
        mc \in SpinBoxValues(GuiMaxCommitsLow, GuiMaxCommitsHigh, TriedMaxCommits),
        fr \in SpinBoxValues(GuiFrequencyLow, GuiFrequencyHigh, TriedFrequency),
        rp \in BOOLEAN, id \in Identities,
        ds \in StartDays,
        de \in (Today - 2)..(Today + MaxRunDays)}

EntryArgs(e) ==
    IF e = "cli" THEN CliArgs
    ELSE {a \in GuiArgs : DayOf(a.day_end) - DayOf(a.day_start) \in (-1)..(MaxRunDays - 1)}

(***************************************************************************)
(* validate_args                                                           *)
(***************************************************************************)
ErrNoRepository == "ValueError: Repository name is required"
ErrRepoMissing == "ValueError: Repository does not exist"
ErrEndBeforeStart == "ValueError: Start date cannot be after end date"
ErrStartInFuture == "ValueError: Start date cannot be in the future"
ErrCompare == "TypeError: can't compare datetime.datetime to datetime.date"
ErrRandint == "ValueError: low >= high"
ErrLookup == "CalledProcessError: gh repo view --json sshUrl"

ValidationErrors ==
    {ErrNoRepository, ErrRepoMissing, ErrEndBeforeStart, ErrStartInFuture, ErrCompare}

EndBeforeStartSwapped(a) == a.day_start < a.day_end

\* args.day_end < args.day_start
EndBeforeStart(a) == a.day_end < a.day_start

StartCheckComparable(a) ==
    IF DayOf(a.day_start) > Today THEN ErrStartInFuture ELSE "ok"

\* args.day_start > datetime.now().date(): an ordering comparison of a
\* datetime.datetime with a datetime.date raises TypeError
StartCheck(a) ==
    IF a.kind = "datetime" THEN ErrCompare
    ELSE IF DayOf(a.day_start) > Today THEN ErrStartInFuture ELSE "ok"

ValidateOutcome(a, gh_ok) ==
    IF ~a.repository THEN ErrNoRepository
    ELSE IF ~gh_ok THEN ErrRepoMissing
    ELSE IF EndBeforeStart(a) THEN ErrEndBeforeStart
    ELSE StartCheck(a)

ValidateArgs ==
    /\ pc = "validate"
    /\ \E gh_ok \in BOOLEAN :
         LET res == ValidateOutcome(args, gh_ok) IN
           /\ pc' = IF res = "ok" THEN "create_repository" ELSE "error"
           /\ err' = IF res = "ok" THEN err ELSE res
    /\ log' = IF args.repository THEN Append(log, "gh_repo_view") ELSE log
    /\ UNCHANGED <<entry, args, dir_exists, origin, directory_exists,
                   commit_data, row, commits>>

(***************************************************************************)
(* create_repository, configure_git                                        *)
(***************************************************************************)
CreateRepository ==
    /\ pc = "create_repository"
    /\ directory_exists' = dir_exists
    /\ dir_exists' = TRUE
    /\ log' = IF dir_exists THEN log ELSE log \o <<"mkdir", "git_init">>
    /\ pc' = IF dir_exists THEN "generate" ELSE "configure_git"
    /\ UNCHANGED <<entry, args, err, origin, commit_data, row, commits>>

ConfigureGit ==
    /\ pc = "configure_git"
    /\ log' = log \o (IF args.user_name THEN <<"git_config_user_name">> ELSE <<>>)
                  \o (IF args.user_email THEN <<"git_config_user_email">> ELSE <<>>)
    /\ pc' = "generate"
    /\ UNCHANGED <<entry, args, err, dir_exists, origin, directory_exists,
                   commit_data, row, commits>>

(***************************************************************************)
(* generate_commits                                                        *)
(***************************************************************************)
Dates == DateRange(args.day_start, args.day_end)

AfterGenerate == IF entry = "call" THEN "returned" ELSE "push"

\* np.random.randint raised ValueError
Raised == 0 - 1

\* The outcomes of one element of the list comprehension that builds
\* commit_data:
\*   np.random.randint(0, np.random.randint(1, max_commits))
\*       if np.random.rand() < frequency else 0
\* a count, or Raised when the inner randint has low >= high.
DayOutcomes(mode, frequency, max_commits) ==
    LET passes == {FrequencyPasses(u, frequency) : u \in RandOutcomes} IN
      (IF FALSE \in passes THEN {0} ELSE {})
      \cup
      (IF TRUE \in passes
       THEN IF RandintRaises(1, max_commits)
            THEN {Raised}
            ELSE UNION {Pick(mode, Randint(0, k)) : k \in Pick(mode, Randint(1, max_commits))}
       ELSE {})

\* One element of the list comprehension; an exception leaves generate_commits
\* before any commit is created.
DrawDayOver(mode) ==
    /\ pc = "generate"
    /\ Len(commit_data) < Len(Dates)
    /\ \E o \in DayOutcomes(mode, args.frequency, args.max_commits) :
         IF o = Raised
         THEN /\ pc' = "error"
              /\ err' = ErrRandint
              /\ UNCHANGED commit_data
         ELSE /\ commit_data' = Append(commit_data, o)
              /\ UNCHANGED <<pc, err>>
    /\ UNCHANGED <<entry, args, dir_exists, origin, directory_exists,
                   row, commits, log>>

DrawDay == DrawDayOver("all")

DrawDayExtreme == DrawDayOver("extreme")

\* One row of df.iterrows(): create_commit(row['date'] + timedelta(minutes=n))
\* for n in range(row['commits']); create_commit appends message(date) to the
\* README and commits with --date date.
CommitRow ==
    /\ pc = "generate"
    /\ Len(commit_data) = Len(Dates)
    /\ row <= Len(Dates)
    /\ commits' = commits \o [n \in 1..commit_data[row] |-> Dates[row] + (n - 1)]
    /\ log' = log \o [n \in 1..commit_data[row] |-> "git_commit"]
    /\ row' = row + 1
    /\ pc' = IF row = Len(Dates) THEN AfterGenerate ELSE "generate"
    /\ UNCHANGED <<entry, args, err, dir_exists, origin, directory_exists,
                   commit_data>>

(***************************************************************************)
(* push_to_remote                                                          *)
(***************************************************************************)
\* git remote get-url origin fails (CalledProcessError)
RemoteMissing(o) == o = "absent"

PublishOpsSwapped == <<"git_push", "git_branch_M">>

\* git branch -M main, then git push -u origin main
PublishOps == <<"git_branch_M", "git_push">>

PushToRemote ==
    /\ pc = "push"
    /\ IF RemoteMissing(origin)
       THEN \E lookup_ok \in BOOLEAN :
              IF lookup_ok
              THEN /\ origin' = "sshUrl"
                   /\ log' = log \o <<"git_remote_get_url", "gh_repo_view_json",
                                      "git_remote_add">> \o PublishOps
                   /\ pc' = "done"
                   /\ UNCHANGED err
              ELSE /\ log' = log \o <<"git_remote_get_url", "gh_repo_view_json">>
                   /\ pc' = "error"
                   /\ err' = ErrLookup
                   /\ UNCHANGED origin
       ELSE /\ log' = log \o <<"git_remote_get_url">> \o PublishOps
            /\ pc' = "done"
            /\ UNCHANGED <<origin, err>>
    /\ UNCHANGED <<entry, args, dir_exists, directory_exists,
                   commit_data, row, commits>>

(***************************************************************************)
(* Specifications                                                          *)
(***************************************************************************)
Fresh ==
    /\ err = ""
    /\ directory_exists = FALSE
    /\ commit_data = <<>>
    /\ row = 1
    /\ commits = <<>>
    /\ log = <<>>

\* main (CLI) and ContributeUI.generate_contributions (GUI)
Init ==
    /\ entry \in {"cli", "gui"}
    /\ args \in EntryArgs(entry)
    /\ pc = "validate"
    /\ dir_exists \in BOOLEAN
    /\ origin \in (IF dir_exists THEN {"absent", "existing"} ELSE {"absent"})
    /\ Fresh

Next ==
    \/ ValidateArgs
    \/ CreateRepository
    \/ ConfigureGit
    \/ DrawDay
    \/ CommitRow
    \/ PushToRemote

Spec == Init /\ [][Next]_vars

\* generate_commits called on an Args with start <= end
CallArgs(maxCommits, frequencies) ==
    {[no_weekends |-> nw, max_commits |-> mc, frequency |-> fr,
      repository |-> TRUE, user_name |-> FALSE, user_email |-> FALSE,
      day_start |-> Midnight(ds), day_end |-> Midnight(ds + len - 1),
      kind |-> "datetime"] :
        nw \in BOOLEAN, mc \in maxCommits, fr \in frequencies,
        ds \in StartDays, len \in 1..MaxDays}

InitCall(maxCommits, frequencies) ==
    /\ entry = "call"
    /\ args \in CallArgs(maxCommits, frequencies)
    /\ pc = "generate"
    /\ dir_exists = TRUE
    /\ origin = "absent"
    /\ Fresh

GenMaxCommits == {0, 1, 2, 3, MAX_COMMITS_PER_DAY, MAX_COMMITS_PER_DAY + 3}
GenFrequency == {0, 50, 100}

InitGen == InitCall(GenMaxCommits, GenFrequency)

NextGen ==
    \/ DrawDay
    \/ CommitRow

SpecGen == InitGen /\ [][NextGen]_vars

\* generate_commits called with any integer max_commits; of every random
\* draw only the extreme outcomes are followed, so each behaviour of
\* SpecWide is a behaviour of generate_commits
WideMaxCommits == {0, 1, 50, MinutesPerDay + 2, MinutesPerDay + 3}

InitWide == InitCall(WideMaxCommits, GenFrequency)

NextWide ==
    \/ DrawDayExtreme
    \/ CommitRow

SpecWide == InitWide /\ [][NextWide]_vars

(***************************************************************************)
(* Properties                                                              *)
(***************************************************************************)
Count(op) == Cardinality({i \in DOMAIN log : log[i] = op})

\* validate_args returned without raising
Validated == pc # "validate" /\ ~(pc = "error" /\ err \in ValidationErrors)

\* generate_commits has been entered
ReachedGenerate ==
    \/ pc \in {"generate", "push", "done", "returned"}
    \/ pc = "error" /\ err \in {ErrRandint, ErrLookup}

CommitDays == {DayOf(commits[i]) : i \in DOMAIN commits}

CommitsOn(d) == Cardinality({i \in DOMAIN commits : DayOf(commits[i]) = d})

\* C1: every timestamp passed to create_commit is not earlier than the start
\* date and its calendar day is not later than the end date's calendar day,
\* for any integer max_commits.
C1_TimestampsInsideRange ==
    \A i \in DOMAIN commits :
        /\ commits[i] >= args.day_start
        /\ DayOf(commits[i]) <= DayOf(args.day_end)

\* C2: on every calendar day the number of commits created is at most the
\* clamped maximum min(max(max_commits, 1), 20), and so is every drawn
\* per-day count, for every requested max_commits.
C2_AtMostClampedMaxPerDay ==
    /\ \A d \in CommitDays : CommitsOn(d) <= ClampedMax(args.max_commits)
    /\ \A r \in DOMAIN commit_data : commit_data[r] <= ClampedMax(args.max_commits)

\* C3: with no_weekends on, no commit of a run (CLI or GUI pipeline) is dated
\* on a Saturday or a Sunday.
C3_NoWeekendCommits ==
    args.no_weekends => \A i \in DOMAIN commits : ~IsWeekend(commits[i])

\* C4: with frequency = 100 and max_commits in 1..20, generate_commits raises
\* nothing and, once it has returned, every eligible day of the range (every
\* day, or Monday-Friday when no_weekends is on) has at least one commit; a
\* single-day range with max_commits = 1 has exactly one commit, dated that day.
C4_EveryEligibleDayCommitted ==
    (args.frequency = 100 /\ args.max_commits \in MIN_COMMITS_PER_DAY..MAX_COMMITS_PER_DAY)
    => /\ pc # "error"
       /\ pc = "returned" =>
            /\ \A r \in DOMAIN Dates :
                 (~args.no_weekends \/ ~IsWeekend(Dates[r]))
                 => DayOf(Dates[r]) \in CommitDays
            /\ (Len(Dates) = 1 /\ args.max_commits = 1)
               => commits = <<Dates[1]>>

\* C5: with frequency = 0, generate_commits creates no commit at all:
\* create_commit is never called and nothing is appended to the tracked file,
\* whatever the date range, max_commits and the random draws.
C5_NoCommitsAtZeroFrequency ==
    args.frequency = 0 =>
        /\ commits = <<>>
        /\ Count("git_commit") = 0
        /\ \A r \in DOMAIN commit_data : commit_data[r] = 0

C5_Witness ==
    /\ args.frequency = 0
    /\ pc = "returned"
    /\ args.max_commits > MAX_COMMITS_PER_DAY
    /\ Len(commit_data) >= 2

\* C6: a run requested with max_commits = 0 or 50 behaves as one requested
\* with the clamped value 1 or 20: it ends in no error and every per-day count
\* it draws is a count a run with the clamped value can draw.
C6_ClampedBeforeDrawing ==
    args.max_commits \in {0, 50} =>
        /\ pc # "error"
        /\ \A r \in DOMAIN commit_data :
             commit_data[r] \in DayOutcomes("all", args.frequency,
                                            ClampedMax(args.max_commits))

\* C7: a run whose end date is earlier than its start date, or whose start
\* date is later than today, never leaves validate_args except by the error it
\* raises: no directory is created or initialised, no commit is written and
\* nothing is pushed.
C7_BadDatesRejectedFirst ==
    (args.day_end < args.day_start \/ DayOf(args.day_start) > Today) =>
        /\ pc \in {"validate", "error"}
        /\ pc = "error" => err \in ValidationErrors
        /\ \A i \in DOMAIN log : log[i] = "gh_repo_view"
        /\ commits = <<>>
        /\ commit_data = <<>>
        /\ directory_exists = FALSE

C7_Witness ==
    /\ entry = "gui"
    /\ DayOf(args.day_start) > Today
    /\ args.day_end >= args.day_start
    /\ pc = "error"
    /\ err = ErrStartInFuture

\* C8: whenever generate_commits has been entered, 0 <= frequency <= 100 and
\* 1 <= max_commits <= 20; a run with either value out of range ends in
\* validate_args and goes no further.
C8_InRange ==
    /\ args.frequency \in GuiFrequencyLow..GuiFrequencyHigh
    /\ args.max_commits \in MIN_COMMITS_PER_DAY..MAX_COMMITS_PER_DAY

C9_StrictlyIncreasingTimestamps ==
    \A i \in DOMAIN commits : i > 1 => commits[i - 1] < commits[i]

\* C10 as stated, on the runs in which the scheduler itself raises nothing:
\* every run that passes validation and has ended has pushed exactly once.
C10_PushExactlyOnceInEveryValidatedRun ==
    (Validated /\ pc \in {"done", "error"} /\ err # ErrRandint)
    => Count("git_push") = 1

C10_State ==
    /\ Count("git_push") <= 1
    /\ pc = "done" => Count("git_push") = 1
    /\ Count("git_push") = 1 => pc = "done"
    /\ \A i \in DOMAIN log :
         log[i] = "git_push" =>
            /\ i = Len(log)
            /\ i > 1
            /\ log[i - 1] = "git_branch_M"
            /\ row = Len(Dates) + 1
            /\ Len(commits) = Count("git_commit")
            /\ \A r \in DOMAIN Dates : CommitsOn(DayOf(Dates[r])) = commit_data[r]
    /\ Count("git_remote_add") <= 1
    /\ Count("git_remote_add") = 1 => origin = "sshUrl"
    /\ origin = "existing" => Count("git_remote_add") = 0

\* C10 (amended): the push happens at most once in a run, exactly once in
\* every run that completes and never in a run that ends in an error; it comes
\* last, directly after the branch rename and after every commit of the run
\* has been created; origin is registered at most once and only when it was
\* absent: origin changes only from absent, so an existing origin is never
\* re-added or changed.
C10_PushOnceAfterAllCommits ==
    /\ []C10_State
    /\ [][origin' # origin => origin = "absent"]_vars

C10_Witness ==
    /\ pc = "done"
    /\ Count("git_push") = 1
    /\ Count("git_remote_add") = 1
    /\ Len(commits) >= 2
    /\ Len(Dates) >= 2

====
